---- MODULE Spec2Model ----
(***************************************************************************)
(* Model of the concurrent crawl orchestration of main.go: the discovery  *)
(* goroutines of discoverURLs (admission gate under mu, fetch, push onto  *)
(* the worklist, fan-out over the extracted links), the goroutine that    *)
(* runs the seed crawl, sleeps and signals done, the worker pool that     *)
(* drains the worklist, and main, which closes the worklist after done,   *)
(* waits for the workers and saves the statistics.                        *)
(***************************************************************************)
EXTENDS Bags, FiniteSets, Integers, Sequences, TLC

\* ------------------------------------------------------------------ bounds
NumURLs == 3          \* size of the modelled web site
MaxCap == 3           \* largest value of the maxURLs argument explored
numWorkers == 2       \* size of the worker pool (scaled down)
WorklistCap == 1      \* capacity of the worklist channel (scaled down)

URLs == 1..NumURLs
seedURL == 1

VARIABLES
    links,            \* the site: links[u] is what extractLinks returns for page u
    maxURLs,          \* the maxURLs argument of discoverURLs
    workerCount,      \* main: the value of the local numWorkers
    visited,          \* discoverURLs: visited map (set of URLs mapped to true)
    count,            \* discoverURLs: count
    mu,               \* discoverURLs: mu is held
    branches,         \* running crawl(url) calls, a bag of records
    seedPc,           \* position of the anonymous goroutine of discoverURLs
    worklist,         \* buffered content of the worklist channel
    closed,           \* the worklist channel has been closed
    workers,          \* running worker goroutines, a bag of records (position, url held)
    wg,               \* WaitGroup counter
    mainPc,           \* position of main
    mainI,            \* loop variable i of main
    completedPages, successPages, failedPages,   \* the atomic counters
    savedStats,       \* arguments of the saveCrawlStats calls, in order
    proc,             \* the process: running, exited, panicked, or fatal
    \* ---- history (observation only)
    admits,           \* admits[u]: number of crawl(u) calls that passed the gate
    rejects,          \* rejects[u]: number of crawl(u) calls that returned at the gate
    pushed,           \* pushed[u]: number of sends of u onto the worklist
    received,         \* received[u]: number of receives of u by workers
    fetchRes,         \* fetchRes[u]: outcome of the discovery fetch of u
    doneSent,         \* the send on done has happened
    closes,           \* number of close(worklist) executions
    spawnedAtCap,     \* some go crawl(link) was started while count >= maxURLs
    scrapeErrs        \* number of scrapes that ended on an error return

vars == <<links, maxURLs, workerCount, visited, count, mu, branches, seedPc, worklist, closed,
          workers, wg, mainPc, mainI, completedPages, successPages, failedPages,
          savedStats, proc, admits, rejects, pushed, received, fetchRes, doneSent,
          closes, spawnedAtCap, scrapeErrs>>

discVars == <<visited, count, mu, branches, seedPc, admits, rejects, fetchRes,
             spawnedAtCap>>
chanVars == <<worklist, closed, pushed, received, closes>>
statVars == <<completedPages, successPages, failedPages, savedStats, scrapeErrs>>
mainVars == <<mainPc, mainI, wg>>
envVars  == <<links, maxURLs, workerCount>>

\* ------------------------------------------------------------- the site
\* Fan-in: the seed links to the next two pages, every later page to its
\* successor (for three pages: A->B, A->C, B->C, C->none); NumURLs >= 3.
FanIn == [u \in URLs |->
            IF u = seedURL THEN <<2, 3>>
            ELSE IF u < NumURLs THEN <<u + 1>> ELSE <<>>]
\* A cycle through all pages.
Ring == [u \in URLs |-> <<(u % NumURLs) + 1>>]
\* The seed links to itself and twice to the same page.
Dup == [u \in URLs |-> IF u = seedURL THEN <<seedURL, 2, 2>> ELSE <<>>]

Graphs == {FanIn, Ring, Dup}

RECURSIVE ReachFrom(_, _)
ReachFrom(S, g) ==
    LET T == S \cup UNION {{g[u][i] : i \in 1..Len(g[u])} : u \in S}
    IN IF T = S THEN S ELSE ReachFrom(T, g)
Reachable == ReachFrom({seedURL}, links)

RECURSIVE Sum(_, _)
Sum(f, S) == IF S = {} THEN 0
             ELSE LET x == CHOOSE y \in S : TRUE IN f[x] + Sum(f, S \ {x})

\* ------------------------------------------------------------- Init
Branch(u, isSeed) == [url |-> u, pc |-> "lock", current |-> 0, idx |-> 0, seed |-> isSeed,
                      parent |-> 0]
\* go crawl(link), started by the call crawl(p)
Child(u, p) == [Branch(u, FALSE) EXCEPT !.parent = p]

InitState ==
    /\ links \in Graphs
    /\ maxURLs \in 1..MaxCap
    /\ visited = {}
    /\ count = 0
    /\ mu = FALSE
    /\ branches = EmptyBag
    /\ seedPc = "unstarted"
    /\ worklist = <<>>
    /\ closed = FALSE
    /\ workers = EmptyBag
    /\ wg = 0
    /\ mainPc = "initDB"
    /\ mainI = 0
    /\ completedPages = 0
    /\ successPages = 0
    /\ failedPages = 0
    /\ savedStats = <<>>
    /\ proc = "running"
    /\ admits = [u \in URLs |-> 0]
    /\ rejects = [u \in URLs |-> 0]
    /\ pushed = [u \in URLs |-> 0]
    /\ received = [u \in URLs |-> 0]
    /\ fetchRes = [u \in URLs |-> "none"]
    /\ doneSent = FALSE
    /\ closes = 0
    /\ spawnedAtCap = FALSE
    /\ scrapeErrs = 0

\* numWorkers := 5 (scaled down)
Init == workerCount = numWorkers /\ InitState

\* The worker count taken as a configuration parameter, zero included.
ConfigInit == workerCount \in 0..numWorkers /\ InitState

Running == proc = "running"

Replace(b, nb) == (branches (-) SetToBag({b})) (+) SetToBag({nb})
Remove(b) == branches (-) SetToBag({b})

\* crawl(url) returns: the seed call returns into the anonymous goroutine.
Return(b) ==
    /\ branches' = Remove(b)
    /\ seedPc' = IF b.seed THEN "sleep" ELSE seedPc

\* --------------------------------------------------- discovery: crawl(url)
\* mu.Lock()
\* (variant: the mutex is not taken)
LockFreeNoMutex == TRUE

LockFree == ~mu

Lock ==
  \E b \in BagToSet(branches) :
    /\ Running /\ b.pc = "lock"
    /\ LockFree
    /\ mu' = TRUE
    /\ branches' = Replace(b, [b EXCEPT !.pc = "gate"])
    /\ UNCHANGED <<visited, count, seedPc, admits, rejects, fetchRes, spawnedAtCap>>
    /\ UNCHANGED <<chanVars, statVars, mainVars, envVars, workers, proc, doneSent>>

\* if visited[url] || count >= maxURLs
\* (variant: the cap comparison is missing)
GateRejectsNoCap(u) == u \in visited

GateRejects(u) == u \in visited \/ count >= maxURLs

\* ... { mu.Unlock(); return }
\* (variant: the URL is marked before the cap is compared)
GateRejectMarks ==
  \E b \in BagToSet(branches) :
    /\ Running /\ b.pc = "gate"
    /\ GateRejects(b.url)
    /\ mu' = FALSE
    /\ rejects' = [rejects EXCEPT ![b.url] = @ + 1]
    /\ Return(b)
    /\ visited' = visited \cup {b.url}
    /\ UNCHANGED <<count, admits, fetchRes, spawnedAtCap>>
    /\ UNCHANGED <<chanVars, statVars, mainVars, envVars, workers, proc, doneSent>>

GateReject ==
  \E b \in BagToSet(branches) :
    /\ Running /\ b.pc = "gate"
    /\ GateRejects(b.url)
    /\ mu' = FALSE
    /\ rejects' = [rejects EXCEPT ![b.url] = @ + 1]
    /\ Return(b)
    /\ UNCHANGED <<visited, count, admits, fetchRes, spawnedAtCap>>
    /\ UNCHANGED <<chanVars, statVars, mainVars, envVars, workers, proc, doneSent>>

\* the gate is passed
GatePass ==
  \E b \in BagToSet(branches) :
    /\ Running /\ b.pc = "gate"
    /\ ~GateRejects(b.url)
    /\ admits' = [admits EXCEPT ![b.url] = @ + 1]
    /\ branches' = Replace(b, [b EXCEPT !.pc = "mark"])
    /\ UNCHANGED <<visited, count, mu, seedPc, rejects, fetchRes, spawnedAtCap>>
    /\ UNCHANGED <<chanVars, statVars, mainVars, envVars, workers, proc, doneSent>>

\* visited[url] = true
Mark ==
  \E b \in BagToSet(branches) :
    /\ Running /\ b.pc = "mark"
    /\ visited' = visited \cup {b.url}
    /\ branches' = Replace(b, [b EXCEPT !.pc = "inc"])
    /\ UNCHANGED <<count, mu, seedPc, admits, rejects, fetchRes, spawnedAtCap>>
    /\ UNCHANGED <<chanVars, statVars, mainVars, envVars, workers, proc, doneSent>>

\* count++; current := count
Inc ==
  \E b \in BagToSet(branches) :
    /\ Running /\ b.pc = "inc"
    /\ count' = count + 1
    /\ branches' = Replace(b, [b EXCEPT !.pc = "unlock", !.current = count + 1])
    /\ UNCHANGED <<visited, mu, seedPc, admits, rejects, fetchRes, spawnedAtCap>>
    /\ UNCHANGED <<chanVars, statVars, mainVars, envVars, workers, proc, doneSent>>

\* mu.Unlock()
Unlock ==
  \E b \in BagToSet(branches) :
    /\ Running /\ b.pc = "unlock"
    /\ mu' = FALSE
    /\ branches' = Replace(b, [b EXCEPT !.pc = "fetch"])
    /\ UNCHANGED <<visited, count, seedPc, admits, rejects, fetchRes, spawnedAtCap>>
    /\ UNCHANGED <<chanVars, statVars, mainVars, envVars, workers, proc, doneSent>>

\* resp, err := makeRequest(url): the outcomes of a discovery fetch
FetchOutcomes == {"ok", "err", "non200"}

\* if err != nil { return } ... if resp.StatusCode != 200 { return }
\* (variant: the status code is not checked)
FetchFailsNoStatus(r) == r = "err"

FetchFails(r) == r = "err" \/ r = "non200"

\* (variant: the push is missing before the loop over the links)
FetchThenLoop ==
  \E b \in BagToSet(branches) :
    /\ Running /\ b.pc = "fetch"
    /\ \E r \in FetchOutcomes :
        /\ fetchRes' = [fetchRes EXCEPT ![b.url] = r]
        /\ IF FetchFails(r)
              THEN Return(b)
              ELSE /\ branches' = Replace(b, [b EXCEPT !.pc = "loop", !.idx = 1])
                   /\ UNCHANGED seedPc
    /\ UNCHANGED <<visited, count, mu, admits, rejects, spawnedAtCap>>
    /\ UNCHANGED <<chanVars, statVars, mainVars, envVars, workers, proc, doneSent>>

Fetch ==
  \E b \in BagToSet(branches) :
    /\ Running /\ b.pc = "fetch"
    /\ \E r \in FetchOutcomes :
        /\ fetchRes' = [fetchRes EXCEPT ![b.url] = r]
        /\ IF FetchFails(r)
              THEN Return(b)
              ELSE /\ branches' = Replace(b, [b EXCEPT !.pc = "send"])
                   /\ UNCHANGED seedPc
    /\ UNCHANGED <<visited, count, mu, admits, rejects, spawnedAtCap>>
    /\ UNCHANGED <<chanVars, statVars, mainVars, envVars, workers, proc, doneSent>>

\* make(chan string, 100): a send proceeds only while the buffer has room
\* (variant: the channel is unbounded)
HasRoomAlways == TRUE

HasRoom == Len(worklist) < WorklistCap

\* worklist <- url, on an open channel with room in the buffer
Send ==
  \E b \in BagToSet(branches) :
    /\ Running /\ b.pc = "send"
    /\ ~closed
    /\ HasRoom
    /\ worklist' = Append(worklist, b.url)
    /\ pushed' = [pushed EXCEPT ![b.url] = @ + 1]
    /\ branches' = Replace(b, [b EXCEPT !.pc = "loop", !.idx = 1])
    /\ UNCHANGED <<visited, count, mu, seedPc, admits, rejects, fetchRes, spawnedAtCap>>
    /\ UNCHANGED <<closed, received, closes>>
    /\ UNCHANGED <<statVars, mainVars, envVars, workers, proc, doneSent>>

\* worklist <- url on a closed channel (also a sender blocked when the channel
\* is closed): the goroutine panics and the process is torn down.
SendOnClosed ==
  \E b \in BagToSet(branches) :
    /\ Running /\ b.pc = "send"
    /\ closed
    /\ proc' = "panicked"
    /\ UNCHANGED <<discVars, chanVars, statVars, mainVars, envVars, workers, doneSent>>

\* if current < maxURLs { go crawl(link) }
\* (variant: the comparison is missing)
SpawnsAlways(b) == TRUE

Spawns(b) == b.current < maxURLs

\* one iteration of: for _, link := range links
LoopStep ==
  \E b \in BagToSet(branches) :
    /\ Running /\ b.pc = "loop"
    /\ b.idx <= Len(links[b.url])
    /\ LET nb == [b EXCEPT !.idx = b.idx + 1]
           child == Child(links[b.url][b.idx], b.url)
       IN branches' = IF Spawns(b)
                         THEN Replace(b, nb) (+) SetToBag({child})
                         ELSE Replace(b, nb)
    /\ spawnedAtCap' = (spawnedAtCap \/ (Spawns(b) /\ count >= maxURLs))
    /\ UNCHANGED <<visited, count, mu, seedPc, admits, rejects, fetchRes>>
    /\ UNCHANGED <<chanVars, statVars, mainVars, envVars, workers, proc, doneSent>>

\* end of the loop: crawl returns
LoopEnd ==
  \E b \in BagToSet(branches) :
    /\ Running /\ b.pc = "loop"
    /\ b.idx > Len(links[b.url])
    /\ Return(b)
    /\ UNCHANGED <<visited, count, mu, admits, rejects, fetchRes, spawnedAtCap>>
    /\ UNCHANGED <<chanVars, statVars, mainVars, envVars, workers, proc, doneSent>>

BranchNext ==
    \/ Lock
    \/ GateReject
    \/ GatePass
    \/ Mark
    \/ Inc
    \/ Unlock
    \/ Fetch
    \/ Send
    \/ SendOnClosed
    \/ LoopStep
    \/ LoopEnd

\* ------------------------------------- discovery: the anonymous goroutine
\* time.Sleep(5 * time.Second) returns; nothing relates the five seconds to
\* the progress of the spawned branches.
SleepExpires ==
    /\ Running /\ seedPc = "sleep"
    /\ seedPc' = "send"
    /\ UNCHANGED <<visited, count, mu, branches, admits, rejects, fetchRes, spawnedAtCap>>
    /\ UNCHANGED <<chanVars, statVars, mainVars, envVars, workers, proc, doneSent>>

\* done <- true meets <-done of main (unbuffered channel)
DoneHandoff ==
    /\ Running /\ seedPc = "send" /\ mainPc = "waitDone"
    /\ seedPc' = "end"
    /\ mainPc' = "close"
    /\ doneSent' = TRUE
    /\ UNCHANGED <<visited, count, mu, branches, admits, rejects, fetchRes, spawnedAtCap>>
    /\ UNCHANGED <<chanVars, statVars, mainI, wg, envVars, workers, proc>>

SeedNext == SleepExpires \/ DoneHandoff

\* ------------------------------------------------------------- workers
Worker == [pc |-> "recv", url |-> 0]
ReplaceWorker(w, nw) == (workers (-) SetToBag({w})) (+) SetToBag({nw})

\* for url := range worklist: receive one item
Recv ==
  \E w \in BagToSet(workers) :
    /\ Running /\ w.pc = "recv"
    /\ Len(worklist) > 0
    /\ workers' = ReplaceWorker(w, [pc |-> "scrape", url |-> Head(worklist)])
    /\ worklist' = Tail(worklist)
    /\ received' = [received EXCEPT ![Head(worklist)] = @ + 1]
    /\ UNCHANGED <<closed, pushed, closes>>
    /\ UNCHANGED <<discVars, statVars, mainVars, envVars, proc, doneSent>>

\* scrapeURLFromWorklist: the step that ends the scrape
ScrapeOutcomes == {"requestFailed", "parseFailed", "dbInsertFailed", "ok"}

\* failedPages.Add(1) on each error return
\* (variant: the db insert error path does not count the failure)
FailedAddNoDb(o) == IF o \in {"ok", "dbInsertFailed"} THEN 0 ELSE 1

FailedAdd(o) == IF o = "ok" THEN 0 ELSE 1
\* successPages.Add(1) on the success path
SuccessAdd(o) == IF o = "ok" THEN 1 ELSE 0
\* completedPages.Add(1) on the success path
CompletedAdd(o) == IF o = "ok" THEN 1 ELSE 0

Scrape ==
  \E w \in BagToSet(workers) :
    /\ Running /\ w.pc = "scrape"
    /\ \E o \in ScrapeOutcomes :
        /\ failedPages' = failedPages + FailedAdd(o)
        /\ successPages' = successPages + SuccessAdd(o)
        /\ completedPages' = completedPages + CompletedAdd(o)
        /\ scrapeErrs' = scrapeErrs + (IF o = "ok" THEN 0 ELSE 1)
    /\ workers' = ReplaceWorker(w, Worker)
    /\ UNCHANGED savedStats
    /\ UNCHANGED <<discVars, chanVars, mainVars, envVars, proc, doneSent>>

\* the range loop ends on a closed, drained channel; defer wg.Done()
WorkerExit ==
  \E w \in BagToSet(workers) :
    /\ Running /\ w.pc = "recv"
    /\ closed /\ Len(worklist) = 0
    /\ workers' = workers (-) SetToBag({w})
    /\ wg' = wg - 1
    /\ UNCHANGED <<mainPc, mainI>>
    /\ UNCHANGED <<discVars, chanVars, statVars, envVars, proc, doneSent>>

WorkerNext == Recv \/ Scrape \/ WorkerExit

\* ------------------------------------------------------------- main
\* db, err := initDB(); if err != nil { log.Fatal(...) }
InitDB ==
    /\ Running /\ mainPc = "initDB"
    /\ \/ /\ mainPc' = "startWorkers"
          /\ UNCHANGED proc
       \/ /\ proc' = "fatal"
          /\ UNCHANGED mainPc
    /\ UNCHANGED <<mainI, wg>>
    /\ UNCHANGED <<discVars, chanVars, statVars, envVars, workers, doneSent>>

\* for i := 0; i < numWorkers; i++ { wg.Add(1); go worker(...) }
StartWorker ==
    /\ Running /\ mainPc = "startWorkers"
    /\ mainI < workerCount
    /\ wg' = wg + 1
    /\ workers' = workers (+) SetToBag({Worker})
    /\ mainI' = mainI + 1
    /\ UNCHANGED mainPc
    /\ UNCHANGED <<discVars, chanVars, statVars, envVars, proc, doneSent>>

\* go discoverURLs(...): the anonymous goroutine starts with crawl(seedURL)
StartDiscovery ==
    /\ Running /\ mainPc = "startWorkers"
    /\ mainI >= workerCount
    /\ mainPc' = "waitDone"
    /\ seedPc' = "crawl"
    /\ branches' = branches (+) SetToBag({Branch(seedURL, TRUE)})
    /\ UNCHANGED <<visited, count, mu, admits, rejects, fetchRes, spawnedAtCap>>
    /\ UNCHANGED <<mainI, wg>>
    /\ UNCHANGED <<chanVars, statVars, envVars, workers, proc, doneSent>>

\* close(worklist)
CloseWorklist ==
    /\ Running /\ mainPc = "close"
    /\ closed' = TRUE
    /\ closes' = closes + 1
    /\ mainPc' = "wgWait"
    /\ UNCHANGED <<worklist, pushed, received>>
    /\ UNCHANGED <<mainI, wg>>
    /\ UNCHANGED <<discVars, statVars, envVars, workers, proc, doneSent>>

\* wg.Wait()
WgWait ==
    /\ Running /\ mainPc = "wgWait"
    /\ wg = 0
    /\ mainPc' = "saveStats"
    /\ UNCHANGED <<mainI, wg>>
    /\ UNCHANGED <<discVars, chanVars, statVars, envVars, workers, proc, doneSent>>

\* saveCrawlStats(db, seedURL, duration, completedPages, successPages, failedPages)
SaveStats ==
    /\ Running /\ mainPc = "saveStats"
    /\ savedStats' = Append(savedStats,
                            [total |-> completedPages, success |-> successPages,
                             failed |-> failedPages])
    /\ mainPc' = "return"
    /\ UNCHANGED <<completedPages, successPages, failedPages, scrapeErrs>>
    /\ UNCHANGED <<mainI, wg>>
    /\ UNCHANGED <<discVars, chanVars, envVars, workers, proc, doneSent>>

\* main returns: the process exits, whatever goroutines are still running
MainReturn ==
    /\ Running /\ mainPc = "return"
    /\ proc' = "exited"
    /\ UNCHANGED <<discVars, chanVars, statVars, mainVars, envVars, workers, doneSent>>

MainNext ==
    \/ InitDB
    \/ StartWorker
    \/ StartDiscovery
    \/ CloseWorklist
    \/ WgWait
    \/ SaveStats
    \/ MainReturn

\* ------------------------------------------------------------- the system
Next ==
    \/ MainNext
    \/ BranchNext
    \/ SeedNext
    \/ WorkerNext

Spec == Init /\ [][Next]_vars

\* The Go scheduler runs every runnable goroutine, timers fire and fetches
\* return (client timeouts).
Fairness ==
    /\ WF_vars(MainNext)
    /\ WF_vars(BranchNext)
    /\ WF_vars(SeedNext)
    /\ WF_vars(WorkerNext)

FairSpec == Spec /\ Fairness

\* main.go fixes numWorkers at 5; this specification runs the same code with
\* the worker count as a parameter, as the orchestrator boundary takes it.
ConfigSpec == ConfigInit /\ [][Next]_vars

TypeOK ==
    /\ visited \subseteq URLs
    /\ count \in Nat
    /\ mu \in BOOLEAN
    /\ Len(worklist) <= WorklistCap
    /\ proc \in {"running", "exited", "panicked", "fatal"}
\* ------------------------------------------------------------- properties
Ended == proc \in {"exited", "panicked"}
Done == proc = "exited"
Started == mainPc = "startWorkers"
Admissions == Sum(admits, URLs)
Pushes == Sum(pushed, URLs)
Popped == Sum(received, URLs)
InScrape == BagCardinality(workers) - CopiesIn(Worker, workers)
BranchesAt(pc) == {b \in BagToSet(branches) : b.pc = pc}
AllFetchesFail == \A u \in URLs : fetchRes[u] # "ok"
AllFetchesOK == \A u \in URLs : fetchRes[u] \in {"none", "ok"}

\* C1: whenever done has been signalled, the seed crawl call and every spawned
\* crawl goroutine have returned (no discovery branch is pending or running).
DoneOnlyWhenQuiescent == doneSent => branches = EmptyBag

\* C2: the worklist is closed at most once and no discovery branch is at (or
\* blocked in) its send on the worklist once the worklist is closed.
NoSendOnClosed == closes <= 1 /\ (closed => BranchesAt("send") = {})

\* C3: for every URL at most one crawl call passes the admission gate.
NoDuplicateAdmission == \A u \in URLs : admits[u] <= 1

\* C3 witness: two calls on the same URL met at the gate below the cap; one
\* was admitted and the other returned at the gate.
NoDuplicateAdmissionWitness ==
    \E u \in URLs : admits[u] = 1 /\ rejects[u] >= 1 /\ count < maxURLs

\* C4: the admission counter, and the number of calls that passed the gate,
\* never exceed maxURLs.
CapRespected == count <= maxURLs /\ Admissions <= maxURLs

\* C4 witness: the cap has been reached and a call on a URL that was never
\* visited has been turned away by it.
CapRespectedWitness ==
    /\ count = maxURLs
    /\ \E u \in URLs : u \notin visited /\ rejects[u] >= 1

\* C5: once the process has ended, every URL pushed onto the worklist has
\* been received (exactly as often as it was pushed: no loss, no double
\* delivery).
WorklistDrainsFully == Ended => \A u \in URLs : received[u] = pushed[u]

\* C6: every popped item is counted in exactly one of successPages and
\* failedPages once its scrape has ended; where the statistics are read and
\* saved (after wg.Wait), successPages + failedPages is the number of items
\* the workers popped.
StatisticsConsistent ==
    /\ successPages + failedPages + InScrape = Popped
    /\ mainPc \in {"saveStats", "return"} => successPages + failedPages = Popped
    /\ \A i \in 1..Len(savedStats) :
          savedStats[i].success + savedStats[i].failed = Popped

\* C6 witness: the statistics of a run with a successful and a failed scrape
\* have been saved.
StatisticsConsistentWitness ==
    Len(savedStats) = 1 /\ successPages >= 1 /\ failedPages >= 1

\* C7: a run that got past the store setup eventually reaches DONE (the
\* process exits from main after saving the statistics).
RunAlwaysCompletes == Started ~> (Done /\ closed /\ wg = 0 /\ Len(savedStats) = 1)

\* C8: if every discovery fetch fails, nothing is ever pushed onto the
\* worklist, and a started run reaches DONE with statistics 0/0/0.
ZeroStats == savedStats = <<[total |-> 0, success |-> 0, failed |-> 0]>>
AllFetchesFailRun ==
    /\ [](AllFetchesFail => Pushes = 0)
    /\ ([]AllFetchesFail) => (Started ~> (Done /\ ZeroStats))

\* C8 witness: the seed fetch failed and the run has ended with 0/0/0.
AllFetchesFailRunWitness ==
    Done /\ fetchRes[seedURL] \in {"err", "non200"} /\ ZeroStats /\ Pushes = 0

\* C9: when more URLs are reachable than the cap admits and every discovery
\* fetch succeeded, a finished run has made exactly maxURLs admissions and
\* pushed at most maxURLs items.
CapExactlyReached ==
    (Ended /\ Cardinality(Reachable) > maxURLs /\ AllFetchesOK)
        => (count = maxURLs /\ Admissions = maxURLs /\ Pushes <= maxURLs)

\* C10: when the cap is at least the number of reachable URLs and every
\* discovery fetch succeeded, a finished run has admitted exactly the
\* reachable URLs, each once, and pushed each of them exactly once.
ReachableSetAdmitted ==
    (Ended /\ Cardinality(Reachable) <= maxURLs /\ AllFetchesOK)
        => /\ visited = Reachable
           /\ \A u \in URLs : admits[u] = (IF u \in Reachable THEN 1 ELSE 0)
           /\ \A u \in URLs : pushed[u] = (IF u \in Reachable THEN 1 ELSE 0)
TotalCountsEveryItem ==
    \A i \in 1..Len(savedStats) :
        /\ savedStats[i].total = Popped
        /\ savedStats[i].total = savedStats[i].success + savedStats[i].failed
\* C13: a go crawl(link) is started only in a state where the shared count
\* is below maxURLs.
SpawnStep == LoopStep /\ BagCardinality(branches') > BagCardinality(branches)
SpawnOnlyBelowSharedCap == [][SpawnStep => count < maxURLs]_vars

\* C13 (amended): a go crawl(link) is started only by a branch whose own
\* admission number `current` (the count it read under mu when it was
\* admitted, never above the shared count) is below maxURLs.
SpawnOnlyBelowOwnCurrent ==
    [][SpawnStep =>
         \E b \in BagToSet(branches) :
            /\ b.pc = "loop"
            /\ CopiesIn(b, branches') < CopiesIn(b, branches)
            /\ b.current < maxURLs
            /\ b.current <= count]_vars

\* C13 witness: a child was started although the shared count had already
\* reached maxURLs, and it has been turned away at the gate.
SpawnOnlyBelowOwnCurrentWitness ==
    spawnedAtCap /\ count = maxURLs /\ \E u \in URLs : u \notin visited /\ rejects[u] >= 1
\* C14: a branch whose fetch returns an error or a non-200 status returns at
\* once: it pushes nothing and starts no child, and its URL stays admitted
\* (marked in visited, counted in count, never admitted again).
FailedFetch(u) == fetchRes[u] \in {"err", "non200"}
FailedFetchStep == \E u \in URLs : ~FailedFetch(u) /\ FailedFetch(u)'
FailedFetchDropsBranch ==
    /\ [](\A u \in URLs : FailedFetch(u) =>
            /\ pushed[u] = 0
            /\ u \in visited /\ admits[u] = 1
            /\ \A b \in BagToSet(branches) :
                  /\ b.parent # u
                  /\ b.url = u => b.pc \in {"lock", "gate"})
    /\ [](Cardinality({u \in URLs : FailedFetch(u)}) <= count)
    /\ [][FailedFetchStep =>
            /\ BagCardinality(branches') = BagCardinality(branches) - 1
            /\ visited' = visited /\ count' = count
            /\ pushed' = pushed /\ worklist' = worklist]_vars

\* C14 witness: a URL whose fetch failed is still marked and counted, and
\* with it the cap is reached: a call on an unvisited URL was turned away.
FailedFetchDropsBranchWitness ==
    \E u, v \in URLs :
        /\ FailedFetch(u) /\ u \in visited /\ pushed[u] = 0
        /\ count = maxURLs /\ v \notin visited /\ rejects[v] >= 1

\* C15: every URL is pushed at most once, and only after it was admitted and
\* its discovery fetch returned status 200; the number of pushes never
\* exceeds the admission count.
PushedAtMostOnce ==
    /\ \A u \in URLs :
          /\ pushed[u] <= 1
          /\ pushed[u] = 1 => (admits[u] = 1 /\ u \in visited /\ fetchRes[u] = "ok")
    /\ Pushes <= count

\* C15 witness: a URL was pushed once although a second call on it was made,
\* and another admitted URL was not pushed.
PushedAtMostOnceWitness ==
    \E u \in URLs : pushed[u] = 1 /\ rejects[u] >= 1 /\ Pushes < count

\* C16: while a child branch started for a link of page p exists (so at each
\* of its admission attempts), p has already been pushed onto the worklist.
PushBeforeChildren ==
    \A b \in BagToSet(branches) : b.parent # 0 => pushed[b.parent] >= 1

\* C16 witness: a child branch is at the admission gate and its parent's URL
\* has been pushed.
PushBeforeChildrenWitness ==
    \E b \in BagToSet(branches) :
        b.parent # 0 /\ b.pc = "gate" /\ pushed[b.parent] = 1
\* C17: once the worklist is closed and empty every worker leaves its loop
\* and exits; the statistics are saved at most once, only after all workers
\* have exited, and no counter changes after it has been read.
StatsReadAfterWorkers ==
    /\ Len(savedStats) <= 1
    /\ mainPc \in {"saveStats", "return"} =>
          (workers = EmptyBag /\ wg = 0 /\ closed /\ Len(worklist) = 0)
    /\ Len(savedStats) = 1 =>
          savedStats[1] = [total |-> completedPages, success |-> successPages,
                           failed |-> failedPages]
WorkersExitThenStatsRead ==
    /\ (closed /\ Len(worklist) = 0) ~> (workers = EmptyBag /\ wg = 0)
    /\ []StatsReadAfterWorkers
\* C18: a failing scrape adds exactly one to failedPages, leaves the worklist
\* alone (the item is not re-enqueued, and is received no more often than it
\* was pushed) and puts the worker back at its receive; a worker exits only
\* when the worklist is closed and empty.
FailureKeepsPoolRunning ==
    /\ [](failedPages = scrapeErrs)
    /\ [](\A u \in URLs : received[u] <= pushed[u])
    /\ [][scrapeErrs' # scrapeErrs =>
            /\ failedPages' = failedPages + 1
            /\ successPages' = successPages
            /\ worklist' = worklist /\ pushed' = pushed
            /\ BagCardinality(workers') = BagCardinality(workers)
            /\ CopiesIn(Worker, workers') = CopiesIn(Worker, workers) + 1
            /\ proc' = proc]_vars
    /\ [][BagCardinality(workers') < BagCardinality(workers) =>
            (closed /\ Len(worklist) = 0)]_vars

\* C18 witness: after a failed scrape every worker of the pool is scraping
\* again, the one that failed included.
FailureKeepsPoolRunningWitness ==
    /\ failedPages >= 1
    /\ BagCardinality(workers) = workerCount
    /\ InScrape = workerCount
\* C19: the worklist never holds more than its capacity; a push happens only
\* while there is room, and while the worklist is full and nothing is popped
\* every branch at its send stays there (it does not reach the link loop).
Backpressure ==
    /\ [](Len(worklist) <= WorklistCap)
    /\ [][pushed' # pushed =>
            (Len(worklist) < WorklistCap /\ Len(worklist') = Len(worklist) + 1)]_vars
    /\ [][(Len(worklist) = WorklistCap /\ worklist' = worklist) =>
            \A b \in BranchesAt("send") :
                CopiesIn(b, branches') >= CopiesIn(b, branches)]_vars

\* C19 witness: the worklist is full and open, and a branch is blocked at its
\* send.
BackpressureWitness ==
    /\ Running /\ ~closed
    /\ Len(worklist) = WorklistCap
    /\ BranchesAt("send") # {}
\* C20: a call that returns at the gate changes neither visited nor count,
\* fetches nothing, pushes nothing and starts no branch (it only ends); and
\* no URL ever leaves visited.
RejectStep == rejects' # rejects
RejectHasNoEffect ==
    /\ [][RejectStep =>
            /\ visited' = visited /\ count' = count /\ admits' = admits
            /\ fetchRes' = fetchRes
            /\ pushed' = pushed /\ worklist' = worklist
            /\ BagCardinality(branches') = BagCardinality(branches) - 1
            /\ \E b \in BranchesAt("gate") :
                  /\ b.url \in visited \/ count >= maxURLs
                  /\ branches' = Remove(b)]_vars
    /\ [][visited \subseteq visited']_vars

\* C20 witness: a call on a URL was turned away by the cap and the URL is
\* neither marked, fetched nor pushed.
RejectHasNoEffectWitness ==
    \E v \in URLs :
        /\ rejects[v] >= 1 /\ admits[v] = 0
        /\ v \notin visited /\ fetchRes[v] = "none" /\ pushed[v] = 0
\* C21: whenever mu is not held, count equals the number of URLs marked in
\* visited (and the number of calls that passed the gate); count never
\* decreases and changes only by one, in a step of an admitted call.
CountMatchesVisited ==
    /\ [](~mu => (count = Cardinality(visited) /\ count = Admissions))
    /\ [][count' # count =>
            /\ count' = count + 1
            /\ mu /\ mu'
            /\ \E b \in BranchesAt("inc") :
                  /\ b.url \in visited
                  /\ branches' = Replace(b, [b EXCEPT !.pc = "unlock",
                                                      !.current = count'])]_vars

\* C21 witness: the mutex is free after at least two admissions, and count
\* equals the number of marked URLs.
CountMatchesVisitedWitness ==
    ~mu /\ count >= 2 /\ count = Cardinality(visited)
====
